---- MODULE Spec2Model ----
(***************************************************************************)
(* libublk (src/src/lib.rs).  The per-queue I/O engine, UblkQueue: the I/O  *)
(* slots, the submission/completion rings, the handler loop, the target    *)
(* callbacks and the ublk driver answering the queue's commands.  The free *)
(* functions (round_up, build_user_data, ublk_ctrl_cmd).  The control      *)
(* engine, UblkCtrl: construction and drop, start_dev, stop_dev, del_dev,  *)
(* start_user_recover, and create_queue_handler with its queue threads.    *)
(***************************************************************************)
EXTENDS Integers, Sequences, FiniteSets, TLC

\* ------------------------------------------------------------- bounds
\* largest queue depth explored (dev_info.queue_depth, 1..MaxDepth)
MaxDepth == 2
\* how many requests the driver delivers (CQEs with UBLK_IO_RES_OK) in a run
MaxOk == 2
\* how many SQEs the target pushes on the queue's ring in a run
MaxTgtIo == 2

\* ---------------------------------------------------------- constants
UBLK_IO_FETCH_REQ == 32
UBLK_IO_COMMIT_AND_FETCH_REQ == 33
UBLK_IO_RES_OK == 0
\* -ENODEV
UBLK_IO_RES_ABORT == -19
\* a negative errno that is neither OK nor ABORT (-EIO)
EIO_RES == -5
\* -EAGAIN, the target I/O result handle_tgt_cqe does not log
EAGAIN_RES == -11
\* the byte count the target reports for a served request (nr_sectors << 9)
IO_BYTES == 512
\* opcode the target gives its own SQEs (a read)
TGT_OP_READ == 22

UBLK_IO_NEED_FETCH_RQ == 1
UBLK_IO_NEED_COMMIT_RQ_COMP == 2
UBLK_IO_FREE == 4
UBLK_QUEUE_STOPPING == 1

\* ------------------------------------------------------- bit helpers
\* (f & b) != 0 for a single-bit mask b
HasFlag(f, b) == (f \div b) % 2 = 1
\* f | b for a single-bit mask b
SetFlag(f, b) == IF HasFlag(f, b) THEN f ELSE f + b
\* f & !b for a single-bit mask b
ClearFlag(f, b) == IF HasFlag(f, b) THEN f - b ELSE f

\* ------------------------------------------------- user-data codec
\* A u64 is kept as four 16-bit limbs, w0 the least significant.
\* (op << 16) and (tgt_data << 24) are u32 shifts: what leaves bit 31 is lost
\* before the widening to u64, so limb w2 is never written.
build_user_data(tag, op, tgt_data, is_target) ==
    [w0 |-> tag % 65536,
     w1 |-> (op % 65536) + ((tgt_data % 256) * 256),
     w2 |-> 0,
     w3 |-> IF is_target THEN 32768 ELSE 0]

is_target_io(user_data) == (user_data.w3 \div 32768) % 2 = 1

user_data_to_tag(user_data) == user_data.w0

user_data_to_op(user_data) == user_data.w1 % 256

\* ------------------------------------------------------------ state
VARIABLES
    q_depth,        \* UblkQueue.q_depth
    ios,            \* UblkQueue.ios: tag -> [buf, buf_addr, flags, result]
    cmd_inflight,   \* UblkQueue.cmd_inflight
    q_state,        \* UblkQueue.q_state
    sq,             \* q_ring's submission queue: SQEs pushed, not yet submitted
    inflight,       \* SQEs the kernel holds and has not answered
    cq,             \* q_ring's completion queue: CQEs posted, not yet reaped
    batch,          \* the CQEs get_cqes collected, still to be handled
    pc,             \* where the queue thread is in handler()
    call,           \* the target callback in progress
    owned,          \* tags dispatched to the target and not yet completed
    aborting,       \* the driver is tearing the queue down
    nFetch,         \* history: tag -> FETCH_REQ SQEs pushed
    nCommit,        \* history: tag -> COMMIT_AND_FETCH_REQ SQEs pushed
    nCmdCqe,        \* history: kernel-command CQEs handled
    nOk,            \* history: CQEs with UBLK_IO_RES_OK posted
    nTgt,           \* history: target SQEs pushed
    abortSeen,      \* history: an ABORT CQE has been handled
    lateCqe,        \* history: tags whose command CQE was handled after the latch
    lateErr,        \* history: those of lateCqe whose result was not OK
    last            \* history: the operation the last step performed

\* the variables of the queue engine
qvars == <<q_depth, ios, cmd_inflight, q_state, sq, inflight, cq, batch, pc, call,
           owned, aborting, nFetch, nCommit, nCmdCqe, nOk, nTgt, abortSeen,
           lateCqe, lateErr, last>>

VARIABLES
    calc,           \* a free function of the library being applied: its input and output
    ctrl,           \* the UblkCtrl object: for_add, dev_info.state, whether it exists,
                    \* and (history) whether its own ADD_DEV was answered 0
    kern,           \* the driver's device and the JSON file of the device
    api,            \* the last UblkCtrl call: what it issued, in order, and its result
    rec,            \* start_user_recover in progress: its locals and what it did so far
    thr,            \* the queue threads create_queue_handler spawned, and their tid cells
    coord           \* create_queue_handler itself: its position and its locals

\* the variables of the control engine
ctrlvars == <<ctrl, kern, api>>

\* the variables of create_queue_handler
hvars == <<thr, coord>>

\* the variables outside the queue engine
ctlvars == <<calc, ctrlvars, rec, hvars>>

vars == <<qvars, ctlvars>>

\* no free function is being applied
NoCalc == [fn |-> "none"]

CalcIdle == calc = NoCalc

\* no UblkCtrl has been constructed
CtrlIdle ==
    /\ ctrl = [alive |-> FALSE]
    /\ kern = [dev |-> "ABSENT"]
    /\ api = [fn |-> "none"]

\* start_user_recover is not running
RecIdle == rec = [pc |-> "none"]

\* create_queue_handler is not running
HandlerIdle == thr = <<>> /\ coord = [pc |-> "none"]

\* nothing outside the queue engine is running
CtlIdle == CalcIdle /\ CtrlIdle /\ RecIdle /\ HandlerIdle

Tags == 0 .. (q_depth - 1)

NoCall == [fn |-> "none", tag |-> 0, res |-> 0, data |-> build_user_data(0, 0, 0, FALSE)]

\* the queue's own fields, as the methods of UblkQueue see them
Q == [ios |-> ios, cmd_inflight |-> cmd_inflight, q_state |-> q_state, sq |-> sq,
      call |-> call]

\* ------------------------------------------------- UblkQueue methods
\* the slots UblkQueue::new builds (no UBLK_F_USER_COPY: buf_addr = __buf_addr)
NewIos(depth) ==
    [t \in 0 .. (depth - 1) |->
        [buf |-> t + 1,
         buf_addr |-> t + 1,
         flags |-> SetFlag(UBLK_IO_NEED_FETCH_RQ, UBLK_IO_FREE),
         result |-> -1]]

\* mutant: the completed slot is marked for a plain fetch instead of a commit
mark_io_done_refetch(q, tag, res) ==
    [q EXCEPT !.ios[tag].flags =
                  SetFlag(SetFlag(@, UBLK_IO_NEED_FETCH_RQ), UBLK_IO_FREE),
              !.ios[tag].result = res]

mark_io_done(q, tag, res) ==
    [q EXCEPT !.ios[tag].flags =
                  SetFlag(SetFlag(@, UBLK_IO_NEED_COMMIT_RQ_COMP), UBLK_IO_FREE),
              !.ios[tag].result = res]

\* mutant: the payload carries no result (the field keeps its initial -1)
IoCmdSqe_noresult(q, tag, cmd_op) ==
    [uring_cmd |-> TRUE,
     cmd_op |-> cmd_op,
     cmd |-> [tag |-> tag, addr |-> q.ios[tag].buf_addr, q_id |-> 0, result |-> -1],
     user_data |-> build_user_data(tag, cmd_op, 0, FALSE)]

\* the uring-cmd SQE of one I/O command
IoCmdSqe(q, tag, cmd_op) ==
    [uring_cmd |-> TRUE,
     cmd_op |-> cmd_op,
     cmd |-> [tag |-> tag, addr |-> q.ios[tag].buf_addr, q_id |-> 0,
              result |-> q.ios[tag].result],
     user_data |-> build_user_data(tag, cmd_op, 0, FALSE)]

\* mutant: NEED_FETCH is looked at before NEED_COMMIT
__queue_io_cmd_fetchfirst(q, tag) ==
    LET io == q.ios[tag] IN
    IF ~HasFlag(io.flags, UBLK_IO_FREE)
    THEN [res |-> 0, q |-> q]
    ELSE IF HasFlag(io.flags, UBLK_IO_NEED_FETCH_RQ)
    THEN [res |-> 1,
          q |-> [q EXCEPT !.sq = Append(@, IoCmdSqe(q, tag, UBLK_IO_FETCH_REQ))]]
    ELSE IF HasFlag(io.flags, UBLK_IO_NEED_COMMIT_RQ_COMP)
    THEN [res |-> 1,
          q |-> [q EXCEPT !.sq = Append(@, IoCmdSqe(q, tag, UBLK_IO_COMMIT_AND_FETCH_REQ))]]
    ELSE [res |-> 0, q |-> q]

\* returns [res, q]: res = 1 when an SQE was pushed
__queue_io_cmd(q, tag) ==
    LET io == q.ios[tag] IN
    IF ~HasFlag(io.flags, UBLK_IO_FREE)
    THEN [res |-> 0, q |-> q]
    ELSE IF HasFlag(io.flags, UBLK_IO_NEED_COMMIT_RQ_COMP)
    THEN [res |-> 1,
          q |-> [q EXCEPT !.sq = Append(@, IoCmdSqe(q, tag, UBLK_IO_COMMIT_AND_FETCH_REQ))]]
    ELSE IF HasFlag(io.flags, UBLK_IO_NEED_FETCH_RQ)
    THEN [res |-> 1,
          q |-> [q EXCEPT !.sq = Append(@, IoCmdSqe(q, tag, UBLK_IO_FETCH_REQ))]]
    ELSE [res |-> 0, q |-> q]

\* mutant: a pushed command is not counted
queue_io_cmd_nocount(q, tag) ==
    LET r == __queue_io_cmd(q, tag) IN
    IF r.res > 0 THEN [r.q EXCEPT !.ios[tag].flags = 0] ELSE r.q

\* mutant: a pushed command leaves the slot's flags as they were
queue_io_cmd_nozero(q, tag) ==
    LET r == __queue_io_cmd(q, tag) IN
    IF r.res > 0 THEN [r.q EXCEPT !.cmd_inflight = @ + 1] ELSE r.q

queue_io_cmd(q, tag) ==
    LET r == __queue_io_cmd(q, tag) IN
    IF r.res > 0
    THEN [r.q EXCEPT !.cmd_inflight = @ + 1, !.ios[tag].flags = 0]
    ELSE r.q

RECURSIVE FetchFrom(_, _, _)
FetchFrom(q, i, depth) ==
    IF i >= depth THEN q ELSE FetchFrom(queue_io_cmd(q, i), i + 1, depth)

\* mutant: the loop over the tags starts at 1
submit_fetch_commands_from1(q, depth) == FetchFrom(q, 1, depth)

submit_fetch_commands(q, depth) == FetchFrom(q, 0, depth)

queue_is_idle(q) == q.cmd_inflight = 0

queue_is_done(q) == HasFlag(q.q_state, UBLK_QUEUE_STOPPING) /\ queue_is_idle(q)

\* mutant: the completion is queued twice
complete_io_twice(q, tag, res) ==
    queue_io_cmd(mark_io_done(queue_io_cmd(mark_io_done(q, tag, res), tag), tag, res), tag)

complete_io(q, tag, res) == queue_io_cmd(mark_io_done(q, tag, res), tag)

\* calls ops.tgt_io_done: the callback frame is entered, nothing else changes
handle_tgt_cqe(q, res, data) ==
    [q EXCEPT !.call = [fn |-> "tgt_io_done", tag |-> user_data_to_tag(data),
                        res |-> res, data |-> data]]

\* mutant: a command that completes with an error leaves the slot's flags alone
HandleCmdCqe_keepflags(q, tag, res, data) ==
    LET q1 == [q EXCEPT !.cmd_inflight = @ - 1]
        stop == res = UBLK_IO_RES_ABORT \/ HasFlag(q1.q_state, UBLK_QUEUE_STOPPING)
        q2 == IF stop
              THEN [q1 EXCEPT !.q_state = SetFlag(@, UBLK_QUEUE_STOPPING),
                              !.ios[tag].flags = ClearFlag(@, UBLK_IO_NEED_FETCH_RQ)]
              ELSE q1
    IN  IF res = UBLK_IO_RES_OK
        THEN [q2 EXCEPT !.call = [fn |-> "queue_io", tag |-> tag, res |-> res,
                                  data |-> data]]
        ELSE q2

\* mutant: a command that completes with neither OK nor a callback is fetched again
HandleCmdCqe_rearm(q, tag, res, data) ==
    LET q1 == [q EXCEPT !.cmd_inflight = @ - 1]
        stop == res = UBLK_IO_RES_ABORT \/ HasFlag(q1.q_state, UBLK_QUEUE_STOPPING)
        q2 == IF stop
              THEN [q1 EXCEPT !.q_state = SetFlag(@, UBLK_QUEUE_STOPPING)]
              ELSE q1
    IN  IF res = UBLK_IO_RES_OK
        THEN [q2 EXCEPT !.call = [fn |-> "queue_io", tag |-> tag, res |-> res,
                                  data |-> data]]
        ELSE queue_io_cmd(
                [q2 EXCEPT !.ios[tag].flags =
                               SetFlag(UBLK_IO_NEED_FETCH_RQ, UBLK_IO_FREE)], tag)

\* the part of handle_cqe for a kernel command, from cmd_inflight -= 1 on
HandleCmdCqe(q, tag, res, data) ==
    LET q1 == [q EXCEPT !.cmd_inflight = @ - 1]
        stop == res = UBLK_IO_RES_ABORT \/ HasFlag(q1.q_state, UBLK_QUEUE_STOPPING)
        q2 == IF stop
              THEN [q1 EXCEPT !.q_state = SetFlag(@, UBLK_QUEUE_STOPPING),
                              !.ios[tag].flags = ClearFlag(@, UBLK_IO_NEED_FETCH_RQ)]
              ELSE q1
    IN  IF res = UBLK_IO_RES_OK
        THEN [q2 EXCEPT !.call = [fn |-> "queue_io", tag |-> tag, res |-> res,
                                  data |-> data]]
        ELSE [q2 EXCEPT !.ios[tag].flags = UBLK_IO_FREE]

\* mutant: the early return for target I/O is missing
handle_cqe_noreturn(q, e) ==
    HandleCmdCqe(handle_tgt_cqe(q, e.res, e.user_data),
                 user_data_to_tag(e.user_data), e.res, e.user_data)

handle_cqe(q, e) ==
    IF is_target_io(e.user_data)
    THEN handle_tgt_cqe(q, e.res, e.user_data)
    ELSE HandleCmdCqe(q, user_data_to_tag(e.user_data), e.res, e.user_data)

\* ----------------------------------------------------------- helpers
\* the SQE a target pushes on the queue's ring for request tag
TgtSqe(tag) ==
    [uring_cmd |-> FALSE,
     cmd_op |-> TGT_OP_READ,
     cmd |-> [tag |-> tag, addr |-> 0, q_id |-> 0, result |-> 0],
     user_data |-> build_user_data(tag, TGT_OP_READ, 0, TRUE)]

\* the entries pushed on the submission queue by a step from old to new
Pushed(old, new) == SubSeq(new, Len(old) + 1, Len(new))

CountOp(s, tag, op) ==
    Cardinality({i \in 1 .. Len(s) :
        s[i].uring_cmd /\ s[i].cmd.tag = tag /\ s[i].cmd_op = op})

RemoveAt(s, i) == SubSeq(s, 1, i - 1) \o SubSeq(s, i + 1, Len(s))

RECURSIVE SumOver(_, _)
SumOver(f, S) ==
    IF S = {} THEN 0
    ELSE LET x == CHOOSE y \in S : TRUE IN f[x] + SumOver(f, S \ {x})

\* the results a driver gives a FETCH_REQ / COMMIT_AND_FETCH_REQ
CmdResults == {UBLK_IO_RES_OK, UBLK_IO_RES_ABORT, EIO_RES}
\* the results a target SQE completes with
TgtResults == {IO_BYTES, EAGAIN_RES}
\* the results a target passes to complete_io
CompleteResults == {IO_BYTES, EIO_RES}

\* write the queue record q2 back, and account for what the step pushed
Apply(q2) ==
    /\ ios' = q2.ios
    /\ cmd_inflight' = q2.cmd_inflight
    /\ q_state' = q2.q_state
    /\ sq' = q2.sq
    /\ call' = q2.call
    /\ nFetch' = [t \in Tags |->
                    nFetch[t] + CountOp(Pushed(sq, q2.sq), t, UBLK_IO_FETCH_REQ)]
    /\ nCommit' = [t \in Tags |->
                    nCommit[t] + CountOp(Pushed(sq, q2.sq), t, UBLK_IO_COMMIT_AND_FETCH_REQ)]

\* ------------------------------------------------------------- Init
QueueInit ==
    /\ q_depth \in 1 .. MaxDepth
    /\ ios = NewIos(q_depth)
    /\ cmd_inflight = 0
    /\ q_state = 0
    /\ sq = <<>>
    /\ inflight = <<>>
    /\ cq = <<>>
    /\ batch = <<>>
    /\ pc = "new"
    /\ call = NoCall
    /\ owned = {}
    /\ aborting = FALSE
    /\ nFetch = [t \in Tags |-> 0]
    /\ nCommit = [t \in Tags |-> 0]
    /\ nCmdCqe = 0
    /\ nOk = 0
    /\ nTgt = 0
    /\ abortSeen = FALSE
    /\ lateCqe = {}
    /\ lateErr = {}
    /\ last = [act |-> "new", tag |-> 0, res |-> 0]

Init == QueueInit /\ CtlIdle

\* ---------------------------------------------------- queue thread
\* handler(): self.submit_fetch_commands()
Prime ==
    /\ pc = "new"
    /\ Apply(submit_fetch_commands(Q, q_depth))
    /\ pc' = "loop"
    /\ last' = [act |-> "submit_fetch_commands", tag |-> 0, res |-> 0]
    /\ UNCHANGED <<ctlvars, q_depth, inflight, cq, batch, owned, aborting, nCmdCqe, nOk, nTgt,
                   abortSeen, lateCqe, lateErr>>

\* process_io(): the queue is done and the SQ is empty: Err(QueueIsDown), handler breaks
ProcessIoDone ==
    /\ pc = "loop"
    /\ queue_is_done(Q) /\ sq = <<>>
    /\ pc' = "exited"
    /\ last' = [act |-> "queue_is_down", tag |-> 0, res |-> 0]
    /\ UNCHANGED <<ctlvars, q_depth, ios, cmd_inflight, q_state, sq, inflight, cq, batch, call,
                   owned, aborting, nFetch, nCommit, nCmdCqe, nOk, nTgt, abortSeen,
                   lateCqe, lateErr>>

\* process_io(): submit_and_wait(1) hands the SQ to the kernel and waits
ProcessIoSubmit ==
    /\ pc = "loop"
    /\ ~(queue_is_done(Q) /\ sq = <<>>)
    /\ inflight' = inflight \o sq
    /\ sq' = <<>>
    /\ pc' = "wait"
    /\ last' = [act |-> "submit_and_wait", tag |-> 0, res |-> 0]
    /\ UNCHANGED <<ctlvars, q_depth, ios, cmd_inflight, q_state, cq, batch, call, owned,
                   aborting, nFetch, nCommit, nCmdCqe, nOk, nTgt, abortSeen, lateCqe,
                   lateErr>>

\* process_io(): submit_and_wait(1) fails (io_uring_enter returns an error, EINTR
\* for one): `?` returns Err(UringSubmissionError) and handler breaks on any Err.
\* The system call failed either before or after it consumed the SQ.
ProcessIoSubmitFail ==
    /\ pc = "loop"
    /\ ~(queue_is_done(Q) /\ sq = <<>>)
    /\ \E consumed \in BOOLEAN :
          /\ inflight' = IF consumed THEN inflight \o sq ELSE inflight
          /\ sq' = IF consumed THEN <<>> ELSE sq
    /\ pc' = "exited"
    /\ last' = [act |-> "submit_error", tag |-> 0, res |-> 0]
    /\ UNCHANGED <<ctlvars, q_depth, ios, cmd_inflight, q_state, cq, batch, call, owned,
                   aborting, nFetch, nCommit, nCmdCqe, nOk, nTgt, abortSeen, lateCqe,
                   lateErr>>

\* submit_and_wait(1) returns once a CQE is there; get_cqes collects all that are
GetCqes ==
    /\ pc = "wait"
    /\ cq # <<>>
    /\ batch' = cq
    /\ cq' = <<>>
    /\ pc' = "reap"
    /\ last' = [act |-> "get_cqes", tag |-> 0, res |-> 0]
    /\ UNCHANGED <<ctlvars, q_depth, ios, cmd_inflight, q_state, sq, inflight, call, owned,
                   aborting, nFetch, nCommit, nCmdCqe, nOk, nTgt, abortSeen, lateCqe,
                   lateErr>>

\* reap_events_uring(): handle_cqe for the next collected CQE, up to the callback
HandleCqe ==
    /\ pc = "reap"
    /\ batch # <<>>
    /\ LET e == Head(batch)
           tag == user_data_to_tag(e.user_data)
           tgt == is_target_io(e.user_data)
           q2 == handle_cqe(Q, e)
           late == ~tgt /\ HasFlag(q_state, UBLK_QUEUE_STOPPING)
       IN  /\ Apply(q2)
           /\ batch' = Tail(batch)
           /\ pc' = IF q2.call.fn = "none" THEN "reap" ELSE q2.call.fn
           /\ nCmdCqe' = IF tgt THEN nCmdCqe ELSE nCmdCqe + 1
           /\ owned' = IF ~tgt /\ e.res = UBLK_IO_RES_OK THEN owned \cup {tag} ELSE owned
           /\ abortSeen' = (abortSeen \/ (~tgt /\ e.res = UBLK_IO_RES_ABORT))
           /\ lateCqe' = IF late THEN lateCqe \cup {tag} ELSE lateCqe
           /\ lateErr' = IF late /\ e.res # UBLK_IO_RES_OK
                         THEN lateErr \cup {tag} ELSE lateErr
           /\ last' = [act |-> IF tgt THEN "handle_tgt_cqe" ELSE "handle_cqe",
                       tag |-> tag, res |-> e.res]
    /\ UNCHANGED <<ctlvars, q_depth, inflight, cq, aborting, nOk, nTgt>>

\* reap_events_uring(): every collected CQE is handled, process_io returns Ok
ReapDone ==
    /\ pc = "reap"
    /\ batch = <<>>
    /\ pc' = "loop"
    /\ last' = [act |-> "reaped", tag |-> 0, res |-> 0]
    /\ UNCHANGED <<ctlvars, q_depth, ios, cmd_inflight, q_state, sq, inflight, cq, batch, call,
                   owned, aborting, nFetch, nCommit, nCmdCqe, nOk, nTgt, abortSeen,
                   lateCqe, lateErr>>

\* ------------------------------------------------- target callbacks
\* in queue_io or tgt_io_done the target completes the request it was given
TgtCompleteIo(res) ==
    /\ pc \in {"queue_io", "tgt_io_done"}
    /\ call.tag \in owned
    /\ Apply([complete_io(Q, call.tag, res) EXCEPT !.call = NoCall])
    /\ owned' = owned \ {call.tag}
    /\ pc' = "reap"
    /\ last' = [act |-> "complete_io", tag |-> call.tag, res |-> res]
    /\ UNCHANGED <<ctlvars, q_depth, inflight, cq, batch, aborting, nCmdCqe, nOk, nTgt,
                   abortSeen, lateCqe, lateErr>>

\* in queue_io or tgt_io_done the target pushes an SQE of its own for the request
TgtSubmitIo ==
    /\ pc \in {"queue_io", "tgt_io_done"}
    /\ call.tag \in owned
    /\ nTgt < MaxTgtIo
    /\ Apply([Q EXCEPT !.sq = Append(@, TgtSqe(call.tag)), !.call = NoCall])
    /\ nTgt' = nTgt + 1
    /\ pc' = "reap"
    /\ last' = [act |-> "tgt_submit", tag |-> call.tag, res |-> 0]
    /\ UNCHANGED <<ctlvars, q_depth, inflight, cq, batch, owned, aborting, nCmdCqe, nOk,
                   abortSeen, lateCqe, lateErr>>

\* tgt_io_done returns without touching the queue (the trait's default body)
TgtIoDoneReturn ==
    /\ pc = "tgt_io_done"
    /\ Apply([Q EXCEPT !.call = NoCall])
    /\ pc' = "reap"
    /\ last' = [act |-> "tgt_return", tag |-> call.tag, res |-> call.res]
    /\ UNCHANGED <<ctlvars, q_depth, inflight, cq, batch, owned, aborting, nCmdCqe, nOk, nTgt,
                   abortSeen, lateCqe, lateErr>>

\* ------------------------------------------------------- the driver
\* the kernel answers one SQE it holds
KernelComplete(i, res) ==
    /\ i \in 1 .. Len(inflight)
    /\ LET s == inflight[i] IN
       /\ IF s.uring_cmd
          THEN /\ res \in CmdResults
               /\ aborting => res = UBLK_IO_RES_ABORT
               /\ res = UBLK_IO_RES_OK => nOk < MaxOk
          ELSE res \in TgtResults
       /\ nOk' = IF s.uring_cmd /\ res = UBLK_IO_RES_OK THEN nOk + 1 ELSE nOk
       /\ cq' = Append(cq, [user_data |-> s.user_data, res |-> res])
    /\ inflight' = RemoveAt(inflight, i)
    /\ UNCHANGED <<ctlvars, q_depth, ios, cmd_inflight, q_state, sq, batch, pc, call, owned,
                   aborting, nFetch, nCommit, nCmdCqe, nTgt, abortSeen, lateCqe, lateErr,
                   last>>

\* the device is stopped: from now on every command is answered with ABORT
KernelStop ==
    /\ ~aborting
    /\ aborting' = TRUE
    /\ UNCHANGED <<ctlvars, q_depth, ios, cmd_inflight, q_state, sq, inflight, cq, batch, pc,
                   call, owned, nFetch, nCommit, nCmdCqe, nOk, nTgt, abortSeen, lateCqe,
                   lateErr, last>>

AllResults == CmdResults \cup TgtResults

QueueStep ==
    \/ Prime
    \/ ProcessIoDone
    \/ ProcessIoSubmit
    \/ GetCqes
    \/ HandleCqe
    \/ ReapDone

TargetStep ==
    \/ \E res \in CompleteResults : TgtCompleteIo(res)
    \/ TgtSubmitIo
    \/ TgtIoDoneReturn

KernelStep ==
    \/ \E i \in 1 .. MaxDepth + MaxTgtIo, res \in AllResults : KernelComplete(i, res)
    \/ KernelStop

\* every run in which submit_and_wait succeeds
NextOk == QueueStep \/ TargetStep \/ KernelStep

SpecOk == Init /\ [][NextOk]_vars

Next == NextOk \/ ProcessIoSubmitFail

Spec == Init /\ [][Next]_vars

\* the run of the scenario of a null target: it completes every request in queue_io,
\* and submit_and_wait does not fail
NextNull ==
    \/ QueueStep
    \/ \E res \in CompleteResults : TgtCompleteIo(res)
    \/ KernelStep

\* the queue thread runs whenever it can, the driver answers what it holds and
\* stops the device at some point
LiveSpec ==
    /\ Init
    /\ [][NextNull]_vars
    /\ WF_vars(QueueStep)
    /\ WF_vars(\E res \in CompleteResults : TgtCompleteIo(res))
    /\ WF_vars(\E i \in 1 .. MaxDepth + MaxTgtIo, res \in AllResults : KernelComplete(i, res))
    /\ WF_vars(KernelStop)

\* ------------------------------------------------------------ claims
Stopping == HasFlag(q_state, UBLK_QUEUE_STOPPING)

Quiescent == pc \in {"new", "loop", "wait", "reap", "exited"}

InCallback == pc \in {"queue_io", "tgt_io_done"}

\* C1: cmd_inflight is the number of kernel-command SQEs (FETCH_REQ and
\* COMMIT_AND_FETCH_REQ) pushed so far minus the number of kernel-command CQEs
\* handled so far; target SQEs and CQEs are in neither count.
C1_InflightIsPushedMinusReaped ==
    cmd_inflight = SumOver(nFetch, Tags) + SumOver(nCommit, Tags) - nCmdCqe

C1_Witness ==
    /\ nTgt >= 1
    /\ nCmdCqe >= 2
    /\ \E t \in Tags : nCommit[t] >= 1
    /\ last.act = "tgt_return"

\* C2: at every quiescent point every slot's flags are {NEED_FETCH, FREE}, {},
\* {NEED_COMMIT, FREE} or {FREE}.
C2_SlotFlagsLegal ==
    Quiescent =>
        \A t \in Tags :
            ios[t].flags \in
                { SetFlag(UBLK_IO_NEED_FETCH_RQ, UBLK_IO_FREE),
                  0,
                  SetFlag(UBLK_IO_NEED_COMMIT_RQ_COMP, UBLK_IO_FREE),
                  UBLK_IO_FREE }

C2_Witness ==
    /\ pc = "reap"
    /\ \E t, u \in Tags :
          /\ ios[t].flags = UBLK_IO_FREE
          /\ ios[u].flags = 0
          /\ nCommit[u] >= 1

\* C3: once an ABORT CQE of a kernel command has been handled, STOPPING is set and
\* stays set, and no FETCH_REQ is pushed for any tag from then on.
C3_NoFetchAfterAbort ==
    [][abortSeen' => (HasFlag(q_state', UBLK_QUEUE_STOPPING)
                      /\ (abortSeen => nFetch' = nFetch))]_vars

C3_Witness ==
    /\ abortSeen
    /\ last.act = "complete_io"
    /\ nCommit[last.tag] >= 1

\* C4 as stated: a tag whose kernel-command CQE was handled after the latch,
\* whatever its result, gets no new kernel command.
C4_NoCommandAfterLateCqe ==
    [][\A t \in lateCqe : nFetch'[t] = nFetch[t] /\ nCommit'[t] = nCommit[t]]_vars

\* C4 as amended: a tag whose kernel-command CQE was handled after the latch with a
\* result other than OK gets no new kernel command; one handled with OK gets no
\* FETCH_REQ (its completion by the target pushes a COMMIT_AND_FETCH_REQ).
C4_NoRearmAfterLateCqe ==
    [][/\ \A t \in lateErr : nFetch'[t] = nFetch[t] /\ nCommit'[t] = nCommit[t]
       /\ \A t \in lateCqe : nFetch'[t] = nFetch[t]]_vars

C4_Witness ==
    /\ \E t \in lateErr : nCommit[t] >= 1
    /\ last.act = "queue_is_down"

\* C5: the handler loop returns only with STOPPING set, cmd_inflight = 0 and an
\* empty submission queue.
C5_ExitOnlyWhenDone ==
    pc = "exited" => (Stopping /\ cmd_inflight = 0 /\ sq = <<>>)

\* C6: when the handler loop has exited the ring is drained: no SQE (kernel command
\* or target I/O) awaits its CQE and no CQE is unhandled.
C6_RingDrainedAtExit ==
    pc = "exited" => (sq = <<>> /\ inflight = <<>> /\ cq = <<>> /\ batch = <<>>)

\* C7: priming a fresh queue of depth d pushes one FETCH_REQ per tag, in tag order,
\* with user_data = (tag, FETCH_REQ, 0, not target), no COMMIT_AND_FETCH_REQ, and
\* leaves every slot's flags empty and cmd_inflight = d.
C7_PrimingPushesOneFetchPerTag ==
    last.act = "submit_fetch_commands" =>
        /\ Len(sq) = q_depth
        /\ \A t \in Tags :
              /\ sq[t + 1].uring_cmd
              /\ sq[t + 1].cmd_op = UBLK_IO_FETCH_REQ
              /\ sq[t + 1].cmd.tag = t
              /\ sq[t + 1].user_data = [w0 |-> t, w1 |-> UBLK_IO_FETCH_REQ, w2 |-> 0, w3 |-> 0]
              /\ ios[t].flags = 0
              /\ nFetch[t] = 1
              /\ nCommit[t] = 0
        /\ cmd_inflight = q_depth

C7_Witness ==
    /\ last.act = "submit_fetch_commands"
    /\ q_depth >= 2
    /\ Len(sq) >= 2

\* C8: with a null target and a driver that answers every command and from some
\* point on answers with ABORT, the handler loop eventually exits, with
\* cmd_inflight = 0.
C8_LoopExits ==
    <>(pc = "exited" /\ cmd_inflight = 0)

\* C9: a complete_io(tag, res) of the target for a dispatched request pushes exactly
\* one SQE, a COMMIT_AND_FETCH_REQ for tag carrying result = res, adds 1 to
\* cmd_inflight and leaves the slot's flags empty; no FETCH_REQ is pushed.
C9_CompleteIoPushesOneCommit ==
    [][(InCallback /\ pc' = "reap" /\ last'.act = "complete_io") =>
        /\ Len(sq') = Len(sq) + 1
        /\ SubSeq(sq', 1, Len(sq)) = sq
        /\ sq'[Len(sq')].uring_cmd
        /\ sq'[Len(sq')].cmd_op = UBLK_IO_COMMIT_AND_FETCH_REQ
        /\ sq'[Len(sq')].cmd.tag = last'.tag
        /\ sq'[Len(sq')].cmd.result = last'.res
        /\ user_data_to_tag(sq'[Len(sq')].user_data) = last'.tag
        /\ ~is_target_io(sq'[Len(sq')].user_data)
        /\ cmd_inflight' = cmd_inflight + 1
        /\ ios'[last'.tag].flags = 0
        /\ nFetch' = nFetch]_vars

C9_Witness ==
    /\ last.act = "complete_io"
    /\ pc = "reap"
    /\ last.res = IO_BYTES
    /\ sq # <<>>
    /\ sq[Len(sq)].cmd_op = UBLK_IO_COMMIT_AND_FETCH_REQ

\* C10: handling a CQE whose user_data has the target bit calls tgt_io_done with the
\* CQE's tag, result and user_data, calls no queue_io and leaves cmd_inflight,
\* q_state, the slots and the submission queue as they were.
C10_TargetCqeOnlyCallsTgtIoDone ==
    [][(pc = "reap" /\ batch # <<>> /\ batch' # batch
            /\ Head(batch).user_data.w3 >= 32768) =>
        /\ pc' = "tgt_io_done"
        /\ call' = [fn |-> "tgt_io_done",
                    tag |-> Head(batch).user_data.w0,
                    res |-> Head(batch).res,
                    data |-> Head(batch).user_data]
        /\ UNCHANGED <<cmd_inflight, q_state, ios, sq, nCmdCqe>>]_vars

C10_Witness ==
    /\ pc = "tgt_io_done"
    /\ last.act = "handle_tgt_cqe"
    /\ call.fn = "tgt_io_done"
    /\ cmd_inflight >= 1

\* =================================================== free functions
\* ------------------------------------------------ 32-bit arithmetic
\* A u32 is kept as two 16-bit limbs, lo the least significant.
ToU32(n) == [hi |-> (n \div 65536) % 65536, lo |-> n % 65536]

\* a + b in u32: the wrapped sum, and whether the true sum left 32 bits
Add32(a, b) ==
    LET l == a.lo + b.lo
        h == a.hi + b.hi + (l \div 65536)
    IN  [v |-> [hi |-> h % 65536, lo |-> l % 65536], ovf |-> h >= 65536]

\* a - b in u32: the wrapped difference, and whether the true difference is negative
Sub32(a, b) ==
    LET l == a.lo - b.lo
        h == a.hi - b.hi - (IF l < 0 THEN 1 ELSE 0)
    IN  [v |-> [hi |-> (h + 65536) % 65536, lo |-> (l + 65536) % 65536], ovf |-> h < 0]

\* !a
Not32(a) == [hi |-> 65535 - a.hi, lo |-> 65535 - a.lo]

\* x & y on the n low bits
RECURSIVE And16(_, _, _)
And16(x, y, n) ==
    IF n = 0 THEN 0
    ELSE ((x % 2) * (y % 2)) + (2 * And16(x \div 2, y \div 2, n - 1))

\* a & b
And32(a, b) == [hi |-> And16(a.hi, b.hi, 16), lo |-> And16(a.lo, b.lo, 16)]

\* a <= b
Le32(a, b) == a.hi < b.hi \/ (a.hi = b.hi /\ a.lo <= b.lo)

\* a < b
Lt32(a, b) == a.hi < b.hi \/ (a.hi = b.hi /\ a.lo < b.lo)

\* mutant: the mask keeps the low bits instead of clearing them
round_up_lowbits(val, rnd, overflow_checks) ==
    LET sum == Add32(val, rnd)
        dec == Sub32(sum.v, ToU32(1))
        msk == Sub32(rnd, ToU32(1))
    IN  IF overflow_checks /\ (sum.ovf \/ dec.ovf \/ msk.ovf)
        THEN [panic |-> TRUE, v |-> ToU32(0)]
        ELSE [panic |-> FALSE, v |-> And32(dec.v, msk.v)]

\* (val + rnd - 1) & !(rnd - 1), evaluated left to right in u32.  A build with
\* overflow checks (the dev profile) panics when a step leaves u32, a build
\* without them (the release profile) wraps.
round_up(val, rnd, overflow_checks) ==
    LET sum == Add32(val, rnd)
        dec == Sub32(sum.v, ToU32(1))
        msk == Sub32(rnd, ToU32(1))
    IN  IF overflow_checks /\ (sum.ovf \/ dec.ovf \/ msk.ovf)
        THEN [panic |-> TRUE, v |-> ToU32(0)]
        ELSE [panic |-> FALSE, v |-> And32(dec.v, Not32(msk.v))]

\* size_of::<ublksrv_io_desc>()
IO_DESC_SIZE == 24

\* UblkQueue::cmd_buf_sz: depth is dev_info.queue_depth (a u16) widened to u32,
\* so depth * 24 stays below 2^21
cmd_buf_sz(depth, page_sz, overflow_checks) ==
    round_up(ToU32(depth * IO_DESC_SIZE), page_sz, overflow_checks)

\* ------------------------------------------------ control-call results
\* libc::EBUSY
EBUSY == 16
\* libc::EINVAL
EINVAL == 22
\* libc::EINTR
EINTR == 4

Ok(r) == [ok |-> TRUE, err |-> "none", val |-> r]

Err(kind, r) == [ok |-> FALSE, err |-> kind, val |-> r]

\* what the control ring does with one command: submit_and_wait fails with
\* -submit_errno (0: it succeeds), or the driver's CQE carries res
RingOk(res) == [submit_errno |-> 0, res |-> res]

RingSubmitErr == [submit_errno |-> EINTR, res |-> 0]

\* mutant: -EBUSY is reported as an error like every other negative result
ublk_ctrl_cmd_busyerr(ring) ==
    IF ring.submit_errno # 0 THEN Err("UringSubmissionError", -ring.submit_errno)
    ELSE IF ring.res = 0 THEN Ok(ring.res)
    ELSE Err("UringIOError", ring.res)

\* ublk_ctrl_cmd: one SQE on the control ring (16 entries, never more than one
\* in flight, so the push cannot find the ring full), submit_and_wait(1), then
\* the result policy on the CQE
ublk_ctrl_cmd(ring) ==
    IF ring.submit_errno # 0 THEN Err("UringSubmissionError", -ring.submit_errno)
    ELSE IF ring.res = 0 \/ ring.res = -EBUSY THEN Ok(ring.res)
    ELSE Err("UringIOError", ring.res)

\* ------------------------------------------------ applying the functions
\* the arguments explored for build_user_data
TagVals == {0, 1, 258, 65535}

OpVals == {0, UBLK_IO_FETCH_REQ, UBLK_IO_COMMIT_AND_FETCH_REQ, 255}

TgtDataVals == {0, 1, 255, 256, 4660, 65535}

\* the arguments explored for round_up: small values, values around a multiple
\* of each rnd, and the top of the u32 range
ValVals ==
    {ToU32(n) : n \in {0, 1, 2, 24, 4095, 4096, 4097, 65535, 65536, 1572840}}
    \cup {[hi |-> 32767, lo |-> 65535], [hi |-> 32768, lo |-> 0], [hi |-> 32768, lo |-> 1],
          [hi |-> 65535, lo |-> 0], [hi |-> 65535, lo |-> 61440],
          [hi |-> 65535, lo |-> 61441], [hi |-> 65535, lo |-> 65535]}

\* powers of two: 1, 2, 4096, 65536, 2^31
PowVals == {ToU32(1), ToU32(2), ToU32(4096), ToU32(65536), [hi |-> 32768, lo |-> 0]}

\* queue depths and page sizes explored for cmd_buf_sz
DepthVals == {0, 1, 2, 64, 170, 171, 1024, 65535}

PageVals == {ToU32(4096), ToU32(16384), ToU32(65536)}

\* the control commands of the driver
CtrlOps == {"GET_QUEUE_AFFINITY", "GET_DEV_INFO", "ADD_DEV", "DEL_DEV", "START_DEV",
            "STOP_DEV", "SET_PARAMS", "GET_PARAMS", "START_USER_RECOVERY",
            "END_USER_RECOVERY"}

\* CQE results explored for a control command
CqeResults == {0, -EBUSY, -1, -EINTR, -19, -EINVAL, 1}

CalcInputs ==
    [fn : {"build_user_data"}, tag : TagVals, op : OpVals, tgt_data : TgtDataVals,
     is_target : BOOLEAN, done : {FALSE}, out : {0}]
    \cup [fn : {"round_up"}, val : ValVals, rnd : PowVals, overflow_checks : BOOLEAN,
          done : {FALSE}, out : {0}]
    \cup [fn : {"cmd_buf_sz"}, depth : DepthVals, page_sz : PageVals,
          overflow_checks : BOOLEAN, done : {FALSE}, out : {0}]
    \cup [fn : {"ublk_ctrl_cmd"}, op : CtrlOps, ring : {RingOk(r) : r \in CqeResults},
          done : {FALSE}, out : {0}]

\* the queue engine stays as constructed while the other parts run
QueueParked == QueueInit /\ q_depth = 1

CalcInit == QueueParked /\ calc \in CalcInputs /\ CtrlIdle /\ RecIdle /\ HandlerIdle

CalcBuildUserData ==
    /\ calc.fn = "build_user_data" /\ ~calc.done
    /\ calc' = [calc EXCEPT !.done = TRUE,
                            !.out = build_user_data(calc.tag, calc.op, calc.tgt_data,
                                                    calc.is_target)]
    /\ UNCHANGED <<qvars, ctrlvars, rec, hvars>>

CalcRoundUp ==
    /\ calc.fn = "round_up" /\ ~calc.done
    /\ calc' = [calc EXCEPT !.done = TRUE,
                            !.out = round_up(calc.val, calc.rnd, calc.overflow_checks)]
    /\ UNCHANGED <<qvars, ctrlvars, rec, hvars>>

CalcCmdBufSz ==
    /\ calc.fn = "cmd_buf_sz" /\ ~calc.done
    /\ calc' = [calc EXCEPT !.done = TRUE,
                            !.out = cmd_buf_sz(calc.depth, calc.page_sz,
                                               calc.overflow_checks)]
    /\ UNCHANGED <<qvars, ctrlvars, rec, hvars>>

CalcCtrlCmd ==
    /\ calc.fn = "ublk_ctrl_cmd" /\ ~calc.done
    /\ calc' = [calc EXCEPT !.done = TRUE, !.out = ublk_ctrl_cmd(calc.ring)]
    /\ UNCHANGED <<qvars, ctrlvars, rec, hvars>>

CalcNext == CalcBuildUserData \/ CalcRoundUp \/ CalcCmdBufSz \/ CalcCtrlCmd

CalcSpec == CalcInit /\ [][CalcNext]_vars

\* the fields of a packed word under the documented layout: tag in bits 0..15,
\* op in bits 16..23, tgt_data in bits 24..39, is_target in bit 63
DecodeUserData(user_data) ==
    [tag |-> user_data_to_tag(user_data),
     op |-> user_data_to_op(user_data),
     tgt_data |-> (user_data.w1 \div 256) + ((user_data.w2 % 256) * 256),
     is_target |-> is_target_io(user_data)]

\* C11: decoding build_user_data(tag, op, tgt_data, is_target) under the
\* documented layout gives back the four values that were packed, for every
\* tag < 2^16, op < 2^8, tgt_data < 2^16 and both values of is_target.
C11_PackThenUnpackIsIdentity ==
    (calc.fn = "build_user_data" /\ calc.done) =>
        DecodeUserData(calc.out) =
            [tag |-> calc.tag, op |-> calc.op, tgt_data |-> calc.tgt_data,
             is_target |-> calc.is_target]

\* r is a multiple of the power of two p
IsMultiple32(r, p) ==
    IF p.hi = 0 THEN r.lo % p.lo = 0 ELSE r.lo = 0 /\ r.hi % p.hi = 0

\* r is the least multiple of p that is >= x
IsLeastMultiple32(r, x, p) ==
    /\ IsMultiple32(r, p)
    /\ Le32(x, r)
    /\ Lt32(Sub32(r, x).v, p)

\* C12 as stated: for every 32-bit x and every power of two p, round_up(x, p)
\* is the least multiple of p that is >= x.
C12_RoundUpEveryInput ==
    (calc.fn = "round_up" /\ calc.done) =>
        /\ ~calc.out.panic
        /\ IsLeastMultiple32(calc.out.v, calc.val, calc.rnd)

\* C12 (amended): when x + p does not leave 32 bits, round_up(x, p) is the least
\* multiple of p that is >= x; the command buffer size of every queue depth
\* (a u16) is therefore a multiple of the page size that covers depth * 24 bytes.
C12_RoundUpWithoutOverflow ==
    /\ (calc.fn = "round_up" /\ calc.done /\ ~Add32(calc.val, calc.rnd).ovf) =>
            /\ ~calc.out.panic
            /\ IsLeastMultiple32(calc.out.v, calc.val, calc.rnd)
    /\ (calc.fn = "cmd_buf_sz" /\ calc.done) =>
            /\ ~calc.out.panic
            /\ IsLeastMultiple32(calc.out.v, ToU32(calc.depth * IO_DESC_SIZE),
                                 calc.page_sz)

C12_Witness ==
    /\ calc.fn = "round_up" /\ calc.done
    /\ calc.val = ToU32(4097) /\ calc.rnd = ToU32(4096)
    /\ calc.out.v = ToU32(8192)

\* C13: a control command whose CQE carries r returns Ok(r) when r is 0 or
\* -EBUSY and UringIOError(r) for every other negative r, whatever the command.
C13_CtrlResultPolicy ==
    (calc.fn = "ublk_ctrl_cmd" /\ calc.done) =>
        LET r == calc.ring.res
        IN  /\ (r = 0 \/ r = -EBUSY) => calc.out = Ok(r)
            /\ (r < 0 /\ r # -EBUSY) => calc.out = Err("UringIOError", r)

C13_Witness ==
    /\ calc.fn = "ublk_ctrl_cmd" /\ calc.done
    /\ calc.ring.res = -EBUSY
    /\ calc.out.ok

\* =================================================== control engine
\* how many start_dev / stop_dev / del_dev calls the owner of a UblkCtrl makes
MaxCalls == 2

\* libc::getpid() of the daemon
DAEMON_PID == 4242
\* libc::ENODEV
ENODEV == 19
\* libc::EEXIST
EEXIST == 17

\* dev_info.state: UBLK_S_DEV_DEAD, UBLK_S_DEV_LIVE, UBLK_S_DEV_QUIESCED
DevStates == {"DEAD", "LIVE", "QUIESCED"}

\* what the control ring may do with a command
CtrlRings == {RingOk(0), RingOk(-EBUSY), RingOk(-EINVAL), RingSubmitErr}

\* what a file operation may do
FsResults == {"ok", "err"}

\* the driver knows no device: every command but ADD_DEV is answered -ENODEV;
\* ADD_DEV of a device that exists is answered -EEXIST
DriverAnswer(k, op, ring) ==
    IF ring.submit_errno # 0 THEN ring
    ELSE IF op = "ADD_DEV" THEN (IF k.dev = "ABSENT" THEN ring ELSE RingOk(-EEXIST))
    ELSE IF k.dev = "ABSENT" THEN RingOk(-ENODEV)
    ELSE ring

\* what a command answered with 0 does to the driver's device
DriverEffect(k, op, ring) ==
    IF ring.submit_errno # 0 \/ ring.res # 0 THEN k
    ELSE CASE op = "ADD_DEV" -> [k EXCEPT !.dev = "DEAD"]
           [] op = "DEL_DEV" -> [k EXCEPT !.dev = "ABSENT"]
           [] op \in {"START_DEV", "END_USER_RECOVERY"} -> [k EXCEPT !.dev = "LIVE"]
           [] op = "STOP_DEV" -> [k EXCEPT !.dev = "DEAD"]
           [] OTHER -> k

\* the UblkCtrl, the driver and the file system as a method of UblkCtrl sees
\* them, with the steps the current call has made and the last Result
W == [ctrl |-> ctrl, kern |-> kern, log |-> <<>>, ret |-> Ok(0)]

\* one control command: ublk_ctrl_cmd on the answer of the driver.  ADD_DEV and
\* GET_DEV_INFO pass dev_info as the command's buffer, which the driver fills
\* when it answers 0.
ctrl_cmd(w, op, data, ring) ==
    LET a == DriverAnswer(w.kern, op, ring)
        k == DriverEffect(w.kern, op, a)
        res == ublk_ctrl_cmd(a)
    IN  [w EXCEPT !.log = Append(@, [op |-> op, data |-> data, ret |-> res,
                                     kdev |-> w.kern.dev]),
                  !.ret = res,
                  !.kern = k,
                  !.ctrl.state = IF /\ op \in {"ADD_DEV", "GET_DEV_INFO"}
                                    /\ a.submit_errno = 0 /\ a.res = 0
                                 THEN k.dev ELSE @,
                  !.ctrl.added = IF op = "ADD_DEV" /\ a.submit_errno = 0 /\ a.res = 0
                                 THEN TRUE ELSE @]

add(w, ring) == ctrl_cmd(w, "ADD_DEV", 0, ring)

del(w, ring) == ctrl_cmd(w, "DEL_DEV", 0, ring)

get_info(w, ring) == ctrl_cmd(w, "GET_DEV_INFO", 0, ring)

start(w, pid, ring) == ctrl_cmd(w, "START_DEV", pid, ring)

stop(w, ring) == ctrl_cmd(w, "STOP_DEV", 0, ring)

set_params(w, ring) == ctrl_cmd(w, "SET_PARAMS", 0, ring)

end_user_recover(w, pid, ring) == ctrl_cmd(w, "END_USER_RECOVERY", pid, ring)

\* fs::remove_file(self.run_path()).map_err(UblkError::OtherIOError)
remove_file(w, fs) ==
    LET res == IF fs = "ok" THEN Ok(0) ELSE Err("OtherIOError", 0)
    IN  [w EXCEPT !.log = Append(@, [op |-> "remove_file", data |-> 0, ret |-> res,
                                     kdev |-> w.kern.dev]),
                  !.ret = res,
                  !.kern.json_file = IF fs = "ok" THEN FALSE ELSE @]

\* flush_json: create_dir_all, File::create, write_all; a failure leaves the
\* file as it was
flush_json(w, fs) ==
    LET res == IF fs = "ok" THEN Ok(0) ELSE Err("OtherIOError", 0)
    IN  [w EXCEPT !.log = Append(@, [op |-> "flush_json", data |-> 0, ret |-> res,
                                     kdev |-> w.kern.dev]),
                  !.ret = res,
                  !.kern.json_file = IF fs = "ok" THEN TRUE ELSE @]

\* mutant: a failing del() leaves drop with the failure
drop_propagate(w, ring) ==
    IF w.ctrl.for_add
    THEN [del(w, ring) EXCEPT !.ctrl.alive = FALSE]
    ELSE [w EXCEPT !.ctrl.alive = FALSE, !.ret = Ok(0)]

\* impl Drop for UblkCtrl: del() when for_add, its Err only traced
drop(w, ring) ==
    IF w.ctrl.for_add
    THEN [del(w, ring) EXCEPT !.ctrl.alive = FALSE, !.ret = Ok(0)]
    ELSE [w EXCEPT !.ctrl.alive = FALSE, !.ret = Ok(0)]

\* UblkCtrl::new with the ring built and the control device opened: add() when
\* for_add, and on its Err the UblkCtrl just built goes out of scope (drop)
UblkCtrl_new(w, for_add, o) ==
    LET w0 == [w EXCEPT !.ctrl = [alive |-> TRUE, for_add |-> for_add, state |-> "DEAD",
                               added |-> FALSE]]
        w1 == add(w0, o.add)
    IN  IF ~for_add THEN w0
        ELSE IF ~w1.ret.ok THEN [drop(w1, o.del) EXCEPT !.ret = w1.ret]
        ELSE [w1 EXCEPT !.ret = Ok(0)]

\* mutant: start_dev goes on after a failing set_params
start_dev_nostop(w, o) ==
    LET w1 == get_info(w, o.get)
        w2 == set_params(w1, o.set)
        w3 == flush_json(w2, o.flush)
        w4 == start(w3, DAEMON_PID, o.start)
        w5 == end_user_recover(w1, DAEMON_PID, o.end)
    IN  IF ~w1.ret.ok THEN w1
        ELSE IF w1.ctrl.state # "QUIESCED"
             THEN IF ~w3.ret.ok THEN w3
                  ELSE IF ~w4.ret.ok THEN w4
                  ELSE [w4 EXCEPT !.ret = Ok(0)]
             ELSE IF ~w5.ret.ok THEN w5
                  ELSE [w5 EXCEPT !.ret = Ok(0)]

\* start_dev: each `?` returns the Err of its step
start_dev(w, o) ==
    LET w1 == get_info(w, o.get)
        w2 == set_params(w1, o.set)
        w3 == flush_json(w2, o.flush)
        w4 == start(w3, DAEMON_PID, o.start)
        w5 == end_user_recover(w1, DAEMON_PID, o.end)
    IN  IF ~w1.ret.ok THEN w1
        ELSE IF w1.ctrl.state # "QUIESCED"
             THEN IF ~w2.ret.ok THEN w2
                  ELSE IF ~w3.ret.ok THEN w3
                  ELSE IF ~w4.ret.ok THEN w4
                  ELSE [w4 EXCEPT !.ret = Ok(0)]
             ELSE IF ~w5.ret.ok THEN w5
                  ELSE [w5 EXCEPT !.ret = Ok(0)]

\* stop_dev
stop_dev(w, o) ==
    LET w1 == remove_file(w, o.fs)
    IN  IF w.ctrl.for_add /\ w.kern.json_file
        THEN IF ~w1.ret.ok THEN w1 ELSE stop(w1, o.stop)
        ELSE stop(w, o.stop)

\* del_dev
del_dev(w, o) ==
    LET w1 == del(w, o.del)
        w2 == remove_file(w1, o.fs)
    IN  IF ~w1.ret.ok THEN w1
        ELSE IF w1.kern.json_file
             THEN IF ~w2.ret.ok THEN w2 ELSE [w2 EXCEPT !.ret = Ok(0)]
             ELSE [w1 EXCEPT !.ret = Ok(0)]

\* the call fn returns: its effects are written back
Return(fn, w) ==
    /\ ctrl' = w.ctrl
    /\ kern' = w.kern
    /\ api' = [fn |-> fn, log |-> w.log, ret |-> w.ret, json_before |-> kern.json_file,
               json_after |-> w.kern.json_file,
               ncalls |-> IF fn \in {"new", "drop"} THEN api.ncalls ELSE api.ncalls + 1]
    /\ UNCHANGED <<qvars, calc, rec, hvars>>

\* a process about to construct a UblkCtrl; the device it names may exist
\* already (an earlier daemon made it) and so may the JSON file
CtrlInit ==
    /\ QueueParked /\ CalcIdle /\ RecIdle /\ HandlerIdle
    /\ ctrl = [alive |-> FALSE, for_add |-> FALSE, state |-> "DEAD", added |-> FALSE]
    /\ kern \in [dev : DevStates \cup {"ABSENT"}, json_file : BOOLEAN]
    /\ api = [fn |-> "none", log |-> <<>>, ret |-> Ok(0), json_before |-> FALSE,
              json_after |-> FALSE, ncalls |-> 0]

New ==
    /\ api.fn = "none"
    /\ \E for_add \in BOOLEAN, o \in [add : CtrlRings, del : CtrlRings] :
            Return("new", UblkCtrl_new(W, for_add, o))

StartDev ==
    /\ ctrl.alive /\ api.ncalls < MaxCalls
    /\ \E o \in [get : CtrlRings, set : CtrlRings, flush : FsResults, start : CtrlRings,
                 end : CtrlRings] :
            Return("start_dev", start_dev(W, o))

StopDev ==
    /\ ctrl.alive /\ api.ncalls < MaxCalls
    /\ \E o \in [fs : FsResults, stop : CtrlRings] : Return("stop_dev", stop_dev(W, o))

DelDev ==
    /\ ctrl.alive /\ api.ncalls < MaxCalls
    /\ \E o \in [del : CtrlRings, fs : FsResults] : Return("del_dev", del_dev(W, o))

Drop ==
    /\ ctrl.alive
    /\ \E ring \in CtrlRings : Return("drop", drop(W, ring))

\* another process changes the device: the daemon serving it dies (the driver
\* quiesces a LIVE device), or a utility removes the JSON file
Outside ==
    /\ api.fn # "none"
    /\ \/ kern.dev = "LIVE" /\ kern' = [kern EXCEPT !.dev = "QUIESCED"]
       \/ kern.json_file /\ kern' = [kern EXCEPT !.json_file = FALSE]
    /\ UNCHANGED <<qvars, calc, rec, hvars, ctrl, api>>

CtrlNext == New \/ StartDev \/ StopDev \/ DelDev \/ Drop \/ Outside

CtrlSpec == CtrlInit /\ [][CtrlNext]_vars

\* the operations of a call, in the order it made them
Ops(log) == [i \in 1 .. Len(log) |-> log[i].op]

\* how often a call made the operation op
NumOps(log, op) == Cardinality({i \in 1 .. Len(log) : log[i].op = op})

IsPrefix(s, t) == Len(s) <= Len(t) /\ \A i \in 1 .. Len(s) : s[i] = t[i]

\* C14: start_dev issues GET_DEV_INFO first; with the refreshed state QUIESCED
\* it then issues END_USER_RECOVERY(pid) and nothing else (no SET_PARAMS, no
\* START_DEV, no JSON write); otherwise it runs SET_PARAMS, the JSON flush and
\* START_DEV(pid) in this order, and a step that fails is the last step made.
C14_StartDevSteps ==
    api.fn = "start_dev" =>
        LET log == api.log
            ops == Ops(log)
            n == Len(log)
        IN  /\ n >= 1 /\ ops[1] = "GET_DEV_INFO"
            /\ \A i \in 1 .. n - 1 : log[i].ret.ok
            /\ log[1].ret = Ok(0) => ctrl.state = log[1].kdev
            /\ api.ret = IF log[n].ret.ok THEN Ok(0) ELSE log[n].ret
            /\ IF ~log[1].ret.ok THEN n = 1
               ELSE IF ctrl.state = "QUIESCED"
                    THEN /\ ops = <<"GET_DEV_INFO", "END_USER_RECOVERY">>
                         /\ log[2].data = DAEMON_PID
                         /\ api.json_after = api.json_before
                    ELSE /\ n >= 2
                         /\ IsPrefix(ops, <<"GET_DEV_INFO", "SET_PARAMS", "flush_json",
                                            "START_DEV">>)
                         /\ n < 4 => ~log[n].ret.ok
                         /\ n = 4 => log[4].data = DAEMON_PID

C14_Witness ==
    /\ api.fn = "start_dev"
    /\ Ops(api.log) = <<"GET_DEV_INFO", "SET_PARAMS", "flush_json">>
    /\ ~api.ret.ok
    /\ ctrl.state = "LIVE"

\* C15: stop_dev removes the JSON file exactly when the UblkCtrl was made with
\* for_add and the file exists, before STOP_DEV; a UblkCtrl made without for_add
\* leaves the file alone; in every case stop_dev issues STOP_DEV exactly once,
\* as its last step.
C15_StopDevSteps ==
    api.fn = "stop_dev" =>
        LET log == api.log
            n == Len(log)
        IN  /\ NumOps(log, "STOP_DEV") = 1
            /\ log[n].op = "STOP_DEV"
            /\ NumOps(log, "remove_file") = IF ctrl.for_add /\ api.json_before THEN 1 ELSE 0
            /\ ~ctrl.for_add => api.json_after = api.json_before

\* C19: a UblkCtrl that goes away issues exactly one DEL_DEV when it was made
\* with for_add and none otherwise, and drop ends normally also when that
\* DEL_DEV fails.
C19_DropDeletesOnce ==
    /\ api.fn = "drop" =>
            /\ ~ctrl.alive
            /\ api.ret = Ok(0)
            /\ Ops(api.log) = IF ctrl.for_add THEN <<"DEL_DEV">> ELSE <<>>
    /\ (api.fn = "new" /\ ~api.ret.ok) =>
            /\ ~ctrl.alive
            /\ NumOps(api.log, "DEL_DEV") = IF ctrl.for_add THEN 1 ELSE 0

C19_Witness ==
    /\ api.fn = "drop"
    /\ ctrl.for_add
    /\ Len(api.log) = 1 /\ ~api.log[1].ret.ok

\* =============================================== start_user_recover
\* let unit = 100_u32: the sleep of one retry, in ms
RECOVER_UNIT_MS == 100
\* count < 30000: the retries stop when the sleeps add up to this, in ms
RECOVER_DEADLINE_MS == 30000

\* how often the driver answers START_USER_RECOVERY with -EBUSY before it
\* answers something else
BusyVals == {0, 1, 2, 10, 150, 298, 299, 300, 301}

\* what the control ring does with the command once the driver is no longer busy
ThenVals == {RingOk(0), RingOk(-EINVAL), RingOk(-ENODEV), RingSubmitErr}

\* the control ring's next answer to START_USER_RECOVERY
RecoverAnswer(r) == IF r.forever \/ r.busy > 0 THEN RingOk(-EBUSY) ELSE r.then

\* the loop body up to the test of the result: __start_user_recover()
recover_issue(r) ==
    LET a == RecoverAnswer(r)
        res == ublk_ctrl_cmd(a)
    IN  [r EXCEPT !.cmds = @ + 1,
                  !.busy = IF @ > 0 THEN @ - 1 ELSE 0,
                  !.kdev = IF a = RingOk(0) THEN "RECOVERING" ELSE @,
                  !.res = res,
                  !.ret = IF res.ok /\ res.val = -EBUSY THEN @ ELSE res,
                  !.pc = IF res.ok /\ res.val = -EBUSY THEN "sleep" ELSE "done"]

\* mutant: the retry sleeps two units and counts one
recover_sleep_double(r) ==
    LET c == r.count + RECOVER_UNIT_MS
    IN  [r EXCEPT !.sleeps = @ + 1,
                  !.slept_ms = @ + (2 * RECOVER_UNIT_MS),
                  !.count = c,
                  !.ret = IF c < RECOVER_DEADLINE_MS THEN @ ELSE r.res,
                  !.pc = IF c < RECOVER_DEADLINE_MS THEN "call" ELSE "done"]

\* mutant: the retries stop after ten sleeps
recover_sleep_short(r) ==
    LET c == r.count + RECOVER_UNIT_MS
    IN  [r EXCEPT !.sleeps = @ + 1,
                  !.slept_ms = @ + RECOVER_UNIT_MS,
                  !.count = c,
                  !.ret = IF c < 10 * RECOVER_UNIT_MS THEN @ ELSE r.res,
                  !.pc = IF c < 10 * RECOVER_UNIT_MS THEN "call" ELSE "done"]

\* mutant: the retries stop when the sleeps add up to twice the deadline
recover_sleep_long(r) ==
    LET c == r.count + RECOVER_UNIT_MS
    IN  [r EXCEPT !.sleeps = @ + 1,
                  !.slept_ms = @ + RECOVER_UNIT_MS,
                  !.count = c,
                  !.ret = IF c < 2 * RECOVER_DEADLINE_MS THEN @ ELSE r.res,
                  !.pc = IF c < 2 * RECOVER_DEADLINE_MS THEN "call" ELSE "done"]

\* the loop body on Ok(-EBUSY): sleep(unit); count += unit; continue while
\* count < 30000, else return res
recover_sleep(r) ==
    LET c == r.count + RECOVER_UNIT_MS
    IN  [r EXCEPT !.sleeps = @ + 1,
                  !.slept_ms = @ + RECOVER_UNIT_MS,
                  !.count = c,
                  !.ret = IF c < RECOVER_DEADLINE_MS THEN @ ELSE r.res,
                  !.pc = IF c < RECOVER_DEADLINE_MS THEN "call" ELSE "done"]

\* start_user_recover is called on a quiesced device; the driver is busy for
\* the first busy0 attempts, or for ever
RecInit ==
    /\ QueueParked /\ CalcIdle /\ CtrlIdle /\ HandlerIdle
    /\ \E f \in BOOLEAN, k \in BusyVals, t \in ThenVals :
            /\ f => k = 0
            /\ rec = [pc |-> "call", count |-> 0, cmds |-> 0, sleeps |-> 0, slept_ms |-> 0,
                      res |-> Ok(0), ret |-> Ok(0), forever |-> f, busy0 |-> k, busy |-> k,
                      then |-> t, kdev |-> "QUIESCED"]

RecoverIssue ==
    /\ rec.pc = "call"
    /\ rec' = recover_issue(rec)
    /\ UNCHANGED <<qvars, calc, ctrlvars, hvars>>

RecoverSleep ==
    /\ rec.pc = "sleep"
    /\ rec' = recover_sleep(rec)
    /\ UNCHANGED <<qvars, calc, ctrlvars, hvars>>

RecNext == RecoverIssue \/ RecoverSleep

\* the driver answers every command and a sleep ends
RecoverSpec == RecInit /\ [][RecNext]_vars /\ WF_vars(RecNext)

\* the deadline in retries
RecoverMaxTries == RECOVER_DEADLINE_MS \div RECOVER_UNIT_MS

\* C16: when the driver answers -EBUSY to the first k attempts, k below the
\* deadline, and then anything else, start_user_recover issues k + 1 commands,
\* sleeps k times 100 ms and returns that outcome unchanged.
C16_BusyThenOutcome ==
    (rec.pc = "done" /\ ~rec.forever /\ rec.busy0 < RecoverMaxTries) =>
        /\ rec.cmds = rec.busy0 + 1
        /\ rec.sleeps = rec.busy0
        /\ rec.slept_ms = rec.busy0 * 100
        /\ rec.ret = ublk_ctrl_cmd(rec.then)

C16_Witness ==
    /\ rec.pc = "done" /\ rec.busy0 = 10 /\ rec.then = RingOk(0)
    /\ rec.cmds = 11 /\ rec.slept_ms = 1000 /\ rec.ret = Ok(0)

\* C17 as stated: any number of -EBUSY answers followed by a success gives the
\* result and the final state of a single success.
C17_BusyThenSuccessAnyCount ==
    (rec.pc = "done" /\ ~rec.forever /\ rec.then = RingOk(0)) =>
        rec.ret = Ok(0) /\ rec.kdev = "RECOVERING"

\* C17 (amended): fewer than 300 -EBUSY answers followed by a success give the
\* result and the final state of a single success; from 300 on the call has
\* returned Ok(-EBUSY) before the success and recovery has not started.
C17_BusyThenSuccessBelowDeadline ==
    (rec.pc = "done" /\ ~rec.forever /\ rec.then = RingOk(0)) =>
        IF rec.busy0 < RecoverMaxTries
        THEN rec.ret = Ok(0) /\ rec.kdev = "RECOVERING"
        ELSE rec.ret = Ok(-EBUSY) /\ rec.kdev = "QUIESCED"

C17_Witness ==
    /\ rec.pc = "done" /\ rec.busy0 = 299 /\ rec.then = RingOk(0)
    /\ rec.ret = Ok(0) /\ rec.kdev = "RECOVERING"

\* C18: start_user_recover returns in every run; it never issues more than 300
\* commands, and when the driver answers -EBUSY for ever it returns Ok(-EBUSY)
\* after 300 commands and 30 000 ms of sleeps.
C18_RecoverTerminates ==
    /\ <>(rec.pc = "done")
    /\ [](rec.cmds <= 300 /\ rec.slept_ms <= 30000)
    /\ []((rec.pc = "done" /\ rec.forever) =>
            /\ rec.ret = Ok(-EBUSY)
            /\ rec.cmds = 300
            /\ rec.slept_ms = 30000)

C18_Witness ==
    /\ rec.pc = "done" /\ rec.forever
    /\ rec.cmds = 300 /\ rec.ret = Ok(-EBUSY)

\* ============================================= create_queue_handler
\* largest dev_info.nr_hw_queues explored
MaxQueues == 2

\* what libc::gettid() may return in a queue thread: positive and different
\* for each thread
TidVals == 101 .. (101 + MaxQueues)

\* the affinity masks the driver may hold for a queue, as sets of CPU ids
MaskVals == {{}, {0, 1}, {2, 3}, {0, 2, 3}}

\* what the control ring may do with GET_QUEUE_AFFINITY: the driver answers 0
\* and fills the buffer, or answers an error
AffinityRings == {RingOk(0), RingOk(-EINVAL), RingSubmitErr}

\* UblkQueueAffinity::to_bits_vec: the indices of the bits set, ascending
RECURSIVE to_bits_vec(_)
to_bits_vec(bm) ==
    IF bm = {} THEN <<>>
    ELSE LET m == CHOOSE x \in bm : \A y \in bm : x <= y
         IN  <<m>> \o to_bits_vec(bm \ {m})

\* build_json: the "queues" object of the record, keyed by format!("{}", qid)
build_json(nr_hw_queues, affi, tids) ==
    LET qids == 0 .. (nr_hw_queues - 1)
        qid_of(k) == CHOOSE q \in qids : ToString(q) = k
    IN  [queues |->
            [k \in {ToString(q) : q \in qids} |->
                [qid |-> qid_of(k),
                 tid |-> tids[qid_of(k) + 1],
                 affinity |-> to_bits_vec(affi[qid_of(k) + 1])]]]

\* mutant: the coordinator takes what the cell holds without waiting
wait_tid_nowait(c, cell) ==
    [c EXCEPT !.q_tids = Append(@, cell),
              !.q = IF c.q + 1 = c.nr_queues THEN 0 ELSE @ + 1,
              !.pc = IF c.q + 1 = c.nr_queues THEN "build" ELSE "wait"]

\* the second loop, with the mutex of the cell held: while *guard == 0 the
\* coordinator waits on the condvar (which releases the mutex), else it pushes
\* *guard and goes to the next queue
wait_tid(c, cell) ==
    IF cell = 0 THEN [c EXCEPT !.parked = TRUE]
    ELSE [c EXCEPT !.q_tids = Append(@, cell),
                   !.q = IF c.q + 1 = c.nr_queues THEN 0 ELSE @ + 1,
                   !.pc = IF c.q + 1 = c.nr_queues THEN "build" ELSE "wait"]

\* create_queue_handler is called for a device of nr_queues queues
HandlerInit ==
    /\ QueueParked /\ CalcIdle /\ CtrlIdle /\ RecIdle
    /\ thr = <<>>
    /\ \E n \in 1 .. MaxQueues :
        \E km \in [1 .. n -> MaskVals] :
            coord = [pc |-> "spawn", nr_queues |-> n, kmask |-> km, q |-> 0,
                     q_affi |-> <<>>, q_tids |-> <<>>, parked |-> FALSE,
                     json |-> [queues |-> <<>>]]

\* the first loop, for queue coord.q: get_queue_affinity(q).unwrap(), then the
\* thread is spawned with its tid cell at 0 and a copy of the mask
SpawnQueue ==
    /\ coord.pc = "spawn"
    /\ \E ring \in AffinityRings :
          LET res == ublk_ctrl_cmd(ring)
              affinity == IF ring = RingOk(0) THEN coord.kmask[coord.q + 1] ELSE {}
          IN  IF ~res.ok
              THEN /\ coord' = [coord EXCEPT !.pc = "panicked"]
                   /\ thr' = thr
              ELSE /\ thr' = Append(thr, [pc |-> "start", cell |-> 0,
                                          affinity |-> affinity])
                   /\ coord' = [coord EXCEPT
                                    !.q_affi = Append(@, affinity),
                                    !.q = IF coord.q + 1 = coord.nr_queues THEN 0 ELSE @ + 1,
                                    !.pc = IF coord.q + 1 = coord.nr_queues
                                           THEN "wait" ELSE "spawn"]
    /\ UNCHANGED <<qvars, calc, ctrlvars, rec>>

\* queue thread q: lock, *guard = gettid(), notify_one, unlock
ThreadPublish(q) ==
    /\ q + 1 \in DOMAIN thr
    /\ thr[q + 1].pc = "start"
    /\ \E t \in TidVals \ {thr[j].cell : j \in DOMAIN thr} :
            thr' = [thr EXCEPT ![q + 1].cell = t, ![q + 1].pc = "setaffinity"]
    /\ UNCHANGED <<qvars, calc, ctrlvars, rec, coord>>

\* queue thread q: pthread_setaffinity_np with its copy of the mask
ThreadSetAffinity(q) ==
    /\ q + 1 \in DOMAIN thr
    /\ thr[q + 1].pc = "setaffinity"
    /\ thr' = [thr EXCEPT ![q + 1].pc = "handler"]
    /\ UNCHANGED <<qvars, calc, ctrlvars, rec, coord>>

\* queue thread q: UblkQueue::new(..).unwrap().handler(ops) returns or panics
ThreadHandler(q) ==
    /\ q + 1 \in DOMAIN thr
    /\ thr[q + 1].pc = "handler"
    /\ thr' = [thr EXCEPT ![q + 1].pc = "exited"]
    /\ UNCHANGED <<qvars, calc, ctrlvars, rec, coord>>

\* the coordinator holds the mutex of cell coord.q and tests it
CoordCheckTid ==
    /\ coord.pc = "wait" /\ ~coord.parked
    /\ coord' = wait_tid(coord, thr[coord.q + 1].cell)
    /\ UNCHANGED <<qvars, calc, ctrlvars, rec, thr>>

\* cvar.wait returns (notified, or woken spuriously) with the mutex held again
CoordWake ==
    /\ coord.pc = "wait" /\ coord.parked
    /\ coord' = [coord EXCEPT !.parked = FALSE]
    /\ UNCHANGED <<qvars, calc, ctrlvars, rec, thr>>

\* self.build_json(dev, q_affi, q_tids); q_threads is returned
BuildJson ==
    /\ coord.pc = "build"
    /\ coord' = [coord EXCEPT !.json = build_json(coord.nr_queues, coord.q_affi,
                                                  coord.q_tids),
                              !.pc = "done"]
    /\ UNCHANGED <<qvars, calc, ctrlvars, rec, thr>>

HandlerNext ==
    \/ SpawnQueue
    \/ \E q \in 0 .. MaxQueues - 1 : ThreadPublish(q)
    \/ \E q \in 0 .. MaxQueues - 1 : ThreadSetAffinity(q)
    \/ \E q \in 0 .. MaxQueues - 1 : ThreadHandler(q)
    \/ CoordCheckTid
    \/ CoordWake
    \/ BuildJson

HandlerSpec == HandlerInit /\ [][HandlerNext]_vars

\* the elements of a sequence
Range(seq) == {seq[i] : i \in 1 .. Len(seq)}

C29_DelOnlyAfterOwnAdd ==
    /\ (api.fn = "new" /\ ~api.ret.ok) => NumOps(api.log, "DEL_DEV") = 0
    /\ (api.fn = "drop" /\ NumOps(api.log, "DEL_DEV") > 0) => ctrl.added

\* the steps of a call that are control commands of the set ops
CmdSteps(log, ops) == {i \in 1 .. Len(log) : log[i].op \in ops}

\* C30: start_dev returns Ok only if the device was started: SET_PARAMS and
\* START_DEV, or END_USER_RECOVERY on a quiesced device, were issued and each
\* was answered 0; an answer of -EBUSY to one of them gives no Ok.
C30_OkOnlyIfStarted ==
    (api.fn = "start_dev" /\ api.ret.ok) =>
        /\ \A i \in CmdSteps(api.log, {"SET_PARAMS", "START_DEV", "END_USER_RECOVERY"}) :
                api.log[i].ret = Ok(0)
        /\ \/ NumOps(api.log, "SET_PARAMS") = 1 /\ NumOps(api.log, "START_DEV") = 1
           \/ NumOps(api.log, "END_USER_RECOVERY") = 1


\* ------------------------------------- the queue's slots, one call at a time
\* the values a slot's flags word takes (any of NEED_FETCH, NEED_COMMIT, FREE)
FlagVals == 0 .. (UBLK_IO_NEED_FETCH_RQ + UBLK_IO_NEED_COMMIT_RQ_COMP + UBLK_IO_FREE)
\* what an unassigned pointer field may hold
JunkVals == {0, 1, 7}
UnregResults == {"ok", "err"}

\* a queue of one slot with the given flags, result and cmd_inflight
SlotQ(flags, result, n_inflight) ==
    [ios |-> [t \in {0} |->
                [buf |-> 1, buf_addr |-> 1, flags |-> flags, result |-> result]],
     cmd_inflight |-> n_inflight, q_state |-> 0, sq |-> <<>>, call |-> NoCall]

\* the slots UblkQueue::new builds for a device with or without
\* UBLK_F_USER_COPY; init is the set of fields new has assigned, and a field
\* outside it holds whatever the allocation held
NewIosFor(depth, user_copy, junk) ==
    [t \in 0 .. (depth - 1) |->
        [buf |-> t + 1,
         buf_addr |-> IF user_copy THEN junk ELSE t + 1,
         flags |-> SetFlag(UBLK_IO_NEED_FETCH_RQ, UBLK_IO_FREE),
         result |-> -1,
         init |-> {"__buf_addr", "flags", "result"}
                    \cup (IF user_copy THEN {} ELSE {"buf_addr"})]]

UblkQueue_new(depth, user_copy, junk) ==
    [ios |-> NewIosFor(depth, user_copy, junk),
     cmd_inflight |-> 0, q_state |-> 0, sq |-> <<>>, call |-> NoCall]

\* the fields of a slot __queue_io_cmd reads when it pushes a command
IoCmdReads == {"flags", "buf_addr", "result"}

set_buf_addr(q, tag, addr) ==
    [q EXCEPT !.ios[tag].buf_addr = addr,
              !.ios[tag].init = @ \cup {"buf_addr"}]

RECURSIVE Rebind(_, _)
\* set_buf_addr called for every tag of the set, with an address of the caller
Rebind(q, tags) ==
    IF tags = {} THEN q
    ELSE LET t == CHOOSE x \in tags : TRUE
         IN  Rebind(set_buf_addr(q, t, MaxDepth + 1 + t), tags \ {t})

\* mutant: the destructor frees the address sent to the driver
drop_queue_bufaddr(q, depth, unreg) ==
    <<[op |-> "unregister_files", arg |-> unreg], [op |-> "munmap", arg |-> "io_cmd_buf"]>>
    \o [i \in 1 .. depth |-> [op |-> "dealloc", arg |-> q.ios[i - 1].buf_addr]]
    \o <<[op |-> "free_ios", arg |-> depth], [op |-> "ring_destroy", arg |-> "q_ring"]>>

\* Drop for UblkQueue, then the fields in declaration order: what is released
drop_queue(q, depth, unreg) ==
    <<[op |-> "unregister_files", arg |-> unreg], [op |-> "munmap", arg |-> "io_cmd_buf"]>>
    \o [i \in 1 .. depth |-> [op |-> "dealloc", arg |-> q.ios[i - 1].buf]]
    \o <<[op |-> "free_ios", arg |-> depth], [op |-> "ring_destroy", arg |-> "q_ring"]>>

\* the queue a "drop" input describes: built, rebound, and primed or not
DropSubject(c) ==
    LET q0 == Rebind(UblkQueue_new(c.depth, c.user_copy, c.junk), c.rebound)
    IN  IF c.primed THEN submit_fetch_commands(q0, c.depth) ELSE q0

SlotInputs ==
    [fn : {"queue_io_cmd"}, flags : FlagVals, result : {-1, IO_BYTES},
     cmd_inflight : 0 .. 1, done : {FALSE}, out : {0}]
    \cup [fn : {"complete_io"}, flags : FlagVals, res : CompleteResults,
          cmd_inflight : 0 .. 1, done : {FALSE}, out : {0}]
    \cup [fn : {"new"}, depth : 0 .. MaxDepth, user_copy : BOOLEAN, junk : JunkVals,
          done : {FALSE}, out : {0}]
    \cup {c \in [fn : {"drop"}, depth : 0 .. MaxDepth, user_copy : BOOLEAN,
                 junk : {0}, rebound : SUBSET (0 .. MaxDepth - 1), primed : BOOLEAN,
                 unreg : UnregResults, closed : {FALSE}, done : {FALSE}, out : {0}] :
            /\ c.rebound \subseteq 0 .. (c.depth - 1)
            /\ c.rebound # {} => c.user_copy}

SlotInit == QueueParked /\ calc \in SlotInputs /\ CtrlIdle /\ RecIdle /\ HandlerIdle

SlotQueueIoCmd ==
    /\ calc.fn = "queue_io_cmd" /\ ~calc.done
    /\ calc' = [calc EXCEPT !.done = TRUE,
                            !.out = queue_io_cmd(SlotQ(calc.flags, calc.result,
                                                       calc.cmd_inflight), 0)]
    /\ UNCHANGED <<qvars, ctrlvars, rec, hvars>>

SlotCompleteIo ==
    /\ calc.fn = "complete_io" /\ ~calc.done
    /\ calc' = [calc EXCEPT !.done = TRUE,
                            !.out = complete_io(SlotQ(calc.flags, -1, calc.cmd_inflight),
                                                0, calc.res)]
    /\ UNCHANGED <<qvars, ctrlvars, rec, hvars>>

\* UblkQueue::new(..).unwrap().handler(ops), up to the end of priming
SlotNewAndPrime ==
    /\ calc.fn = "new" /\ ~calc.done
    /\ calc' = [calc EXCEPT !.done = TRUE,
                            !.out = submit_fetch_commands(
                                        UblkQueue_new(calc.depth, calc.user_copy, calc.junk),
                                        calc.depth)]
    /\ UNCHANGED <<qvars, ctrlvars, rec, hvars>>

SlotDropQueue ==
    /\ calc.fn = "drop" /\ ~calc.done
    /\ calc' = [calc EXCEPT !.done = TRUE,
                            !.out = drop_queue(DropSubject(calc), calc.depth, calc.unreg)]
    /\ UNCHANGED <<qvars, ctrlvars, rec, hvars>>

\* the UblkDev the queue borrowed is dropped after it: cdev_file is closed
SlotDropDev ==
    /\ calc.fn = "drop" /\ calc.done /\ ~calc.closed
    /\ calc' = [calc EXCEPT !.closed = TRUE,
                            !.out = Append(@, [op |-> "close_cdev", arg |-> "cdev_file"])]
    /\ UNCHANGED <<qvars, ctrlvars, rec, hvars>>

SlotNext ==
    SlotQueueIoCmd \/ SlotCompleteIo \/ SlotNewAndPrime \/ SlotDropQueue \/ SlotDropDev

SlotSpec == SlotInit /\ [][SlotNext]_vars

\* the steps of a release log that free the address a
Deallocs(log, a) == {i \in 1 .. Len(log) : log[i].op = "dealloc" /\ log[i].arg = a}

\* C22: dropping a queue in any state, rebound slots included, unregisters
\* the fixed files once, unmaps the descriptor slab once and frees each of
\* the depth raw buffers exactly once and nothing else; the unregister and
\* the munmap come before the ring is destroyed and before the cdev is closed.
C22_DropReleasesEachBufferOnce ==
    (calc.fn = "drop" /\ calc.done) =>
        LET log == calc.out
            q == DropSubject(calc)
        IN  /\ NumOps(log, "unregister_files") = 1
            /\ NumOps(log, "munmap") = 1
            /\ NumOps(log, "dealloc") = calc.depth
            /\ \A t \in 0 .. (calc.depth - 1) :
                  Cardinality(Deallocs(log, q.ios[t].buf)) = 1
            /\ \A i \in 1 .. Len(log) : \A j \in 1 .. Len(log) :
                  (/\ log[i].op \in {"unregister_files", "munmap"}
                   /\ log[j].op \in {"ring_destroy", "close_cdev"}) => i < j

C22_Witness ==
    /\ calc.fn = "drop" /\ calc.done /\ calc.closed
    /\ calc.depth = 2 /\ calc.rebound = {0} /\ calc.primed
    /\ DropSubject(calc).ios[0].buf_addr # DropSubject(calc).ios[0].buf
    /\ Deallocs(calc.out, DropSubject(calc).ios[0].buf_addr) = {}

\* C23: every field of a slot that priming reads has been assigned before,
\* for every device flag combination: the buffer address in the first
\* FETCH_REQ of each tag is an initialized value.
C23_SlotFieldsAssignedBeforeRead ==
    (calc.fn = "new" /\ calc.done) =>
        \A i \in 1 .. Len(calc.out.sq) :
            IoCmdReads \subseteq calc.out.ios[calc.out.sq[i].cmd.tag].init

\* C24: queue_io_cmd decides from the slot's flags alone: without FREE, or
\* with FREE alone, nothing is pushed and flags, result and cmd_inflight stay;
\* with FREE and NEED_COMMIT it pushes COMMIT_AND_FETCH_REQ, with FREE and
\* NEED_FETCH only FETCH_REQ, and a push zeroes the flags and adds 1 to
\* cmd_inflight.
C24_QueueIoCmdDecision ==
    (calc.fn = "queue_io_cmd" /\ calc.done) =>
        LET q0 == SlotQ(calc.flags, calc.result, calc.cmd_inflight)
            q1 == calc.out
            free == HasFlag(calc.flags, UBLK_IO_FREE)
            commit == HasFlag(calc.flags, UBLK_IO_NEED_COMMIT_RQ_COMP)
            fetch == HasFlag(calc.flags, UBLK_IO_NEED_FETCH_RQ)
        IN  IF free /\ (commit \/ fetch)
            THEN /\ Len(q1.sq) = 1
                 /\ q1.sq[1].uring_cmd
                 /\ q1.sq[1].cmd.tag = 0
                 /\ q1.sq[1].cmd_op = (IF commit THEN UBLK_IO_COMMIT_AND_FETCH_REQ
                                       ELSE UBLK_IO_FETCH_REQ)
                 /\ q1.ios[0].flags = 0
                 /\ q1.ios[0].result = calc.result
                 /\ q1.cmd_inflight = calc.cmd_inflight + 1
            ELSE q1 = q0

C24_Witness ==
    /\ calc.fn = "queue_io_cmd" /\ calc.done
    /\ HasFlag(calc.flags, UBLK_IO_FREE)
    /\ HasFlag(calc.flags, UBLK_IO_NEED_COMMIT_RQ_COMP)
    /\ HasFlag(calc.flags, UBLK_IO_NEED_FETCH_RQ)
    /\ calc.out.sq[1].cmd_op = UBLK_IO_COMMIT_AND_FETCH_REQ

\* C27: complete_io on a tag whose command is outstanding (flags empty) or
\* whose slot is terminal (flags exactly FREE) pushes no kernel command and
\* leaves cmd_inflight as it was.
C27_CompleteIoOnUnownedTagIsNoOp ==
    (calc.fn = "complete_io" /\ calc.done /\ calc.flags \in {0, UBLK_IO_FREE}) =>
        /\ calc.out.sq = <<>>
        /\ calc.out.cmd_inflight = calc.cmd_inflight


\* ----------------------------------------------- more on the queue engine
\* a step that handles the CQE of a kernel command
CmdCqeHandled == nCmdCqe' = nCmdCqe + 1

\* the kernel commands of tag t pushed and not yet handled: in the SQ, in the
\* kernel, or as a CQE not yet handled
Outstanding(t) ==
    Cardinality({i \in 1 .. Len(sq) : sq[i].uring_cmd /\ sq[i].cmd.tag = t})
    + Cardinality({i \in 1 .. Len(inflight) :
                      inflight[i].uring_cmd /\ inflight[i].cmd.tag = t})
    + Cardinality({i \in 1 .. Len(cq) :
                      ~is_target_io(cq[i].user_data) /\ user_data_to_tag(cq[i].user_data) = t})
    + Cardinality({i \in 1 .. Len(batch) :
                      ~is_target_io(batch[i].user_data)
                      /\ user_data_to_tag(batch[i].user_data) = t})

\* an SQE of the target is in the SQ or in the kernel, or its CQE is not yet handled
TgtIoOutstanding ==
    \/ \E i \in 1 .. Len(sq) : ~sq[i].uring_cmd
    \/ \E i \in 1 .. Len(inflight) : ~inflight[i].uring_cmd
    \/ \E i \in 1 .. Len(cq) : is_target_io(cq[i].user_data)
    \/ \E i \in 1 .. Len(batch) : is_target_io(batch[i].user_data)

\* C25: handling a kernel-command CQE whose result is neither OK nor ABORT
\* while STOPPING is not set decrements cmd_inflight, sets the slot's flags to
\* exactly {FREE}, leaves STOPPING unset, calls no callback and pushes
\* nothing; a slot whose flags are exactly {FREE} stays so and its tag is
\* not issued again.
C25_ErrorCqeRetiresTag ==
    [][/\ (/\ CmdCqeHandled
           /\ last'.res \notin {UBLK_IO_RES_OK, UBLK_IO_RES_ABORT}
           /\ ~Stopping)
          => /\ cmd_inflight' = cmd_inflight - 1
             /\ ios'[last'.tag].flags = UBLK_IO_FREE
             /\ q_state' = q_state
             /\ call' = NoCall /\ pc' = "reap"
             /\ sq' = sq
       /\ \A t \in Tags :
             ios[t].flags = UBLK_IO_FREE
                => /\ ios'[t].flags = UBLK_IO_FREE
                   /\ nFetch'[t] = nFetch[t]
                   /\ nCommit'[t] = nCommit[t]]_vars

C25_Witness ==
    /\ ~Stopping
    /\ \E t \in Tags : ios[t].flags = UBLK_IO_FREE /\ nFetch[t] = 1 /\ nCommit[t] = 0
    /\ last.act = "complete_io"
    /\ nCommit[last.tag] >= 1

\* C26: with a target that completes only requests dispatched to it, each at
\* most once, no tag has more than one kernel command outstanding and
\* cmd_inflight never exceeds the queue depth.
C26_OneCommandPerTag ==
    /\ \A t \in Tags : Outstanding(t) <= 1
    /\ cmd_inflight <= q_depth

C26_Witness ==
    /\ q_depth = 2
    /\ cmd_inflight = q_depth
    /\ \A t \in Tags : Outstanding(t) = 1
    /\ \E t \in Tags : nCommit[t] >= 1

\* C28: after priming, when cmd_inflight is 0 and no target I/O is
\* outstanding, the handler loop exits; it does not enter submit_and_wait(1).
C28_NoWaitWithNothingOutstanding ==
    [][(/\ pc = "loop"
        /\ cmd_inflight = 0
        /\ ~TgtIoOutstanding
        /\ owned = {})
       => pc' # "wait"]_vars


\* ------------------------------------------------------- ublk_tgt_worker
\* what UblkDev::new may do: the cdev opens and init_tgt returns Ok, or not
DevNewResults == {"ok", "err"}

\* ublk_tgt_worker is called: no UblkCtrl yet, the device it names may exist
WorkerInit ==
    /\ QueueParked /\ CalcIdle /\ RecIdle
    /\ thr = <<>>
    /\ ctrl = [alive |-> FALSE, for_add |-> FALSE, state |-> "DEAD", added |-> FALSE]
    /\ kern \in [dev : DevStates \cup {"ABSENT"}, json_file : BOOLEAN]
    /\ api = [fn |-> "none", log |-> <<>>, ret |-> Ok(0), json_before |-> FALSE,
              json_after |-> FALSE, ncalls |-> 0]
    /\ \E n \in 1 .. MaxQueues :
            coord = [pc |-> "ctrl_new", nr_queues |-> n, kmask |-> [q \in 1 .. n |-> {0, 1}],
                     q |-> 0, q_affi |-> <<>>, q_tids |-> <<>>, parked |-> FALSE,
                     json |-> [queues |-> <<>>]]

\* a step of ublk_tgt_worker on its UblkCtrl is done: the commands it issued
\* are added to the log of the run, and the worker goes on at next
WorkerReturn(w, next) ==
    /\ ctrl' = w.ctrl
    /\ kern' = w.kern
    /\ api' = [api EXCEPT !.fn = "ublk_tgt_worker", !.log = @ \o w.log, !.ret = w.ret,
                          !.json_after = w.kern.json_file]
    /\ coord' = [coord EXCEPT !.pc = next]
    /\ UNCHANGED <<qvars, calc, rec, thr>>

\* UblkCtrl::new(..).unwrap(): on Err no UblkCtrl is bound and the panic
\* leaves the function
WorkerCtrlNew ==
    /\ coord.pc = "ctrl_new"
    /\ \E for_add \in BOOLEAN, o \in [add : CtrlRings, del : CtrlRings] :
          LET w == UblkCtrl_new(W, for_add, o)
          IN  WorkerReturn(w, IF w.ret.ok THEN "dev_new" ELSE "unwound")

\* UblkDev::new(tgt_fn(), &mut ctrl).unwrap(): no control command
WorkerDevNew ==
    /\ coord.pc = "dev_new"
    /\ \E r \in DevNewResults :
          WorkerReturn(W, IF r = "ok" THEN "spawn" ELSE "panicked")

\* ctrl.start_dev(&ublk_dev).unwrap(), then the workload thread is spawned
WorkerStartDev ==
    /\ coord.pc = "done"
    /\ \E o \in [get : CtrlRings, set : CtrlRings, flush : FsResults, start : CtrlRings,
                 end : CtrlRings] :
          LET w == start_dev(W, o)
          IN  WorkerReturn(w, IF w.ret.ok THEN "join" ELSE "panicked")

\* for qh in threads { qh.join() }: returns once every queue thread has ended
WorkerJoin ==
    /\ coord.pc = "join"
    /\ \A q \in DOMAIN thr : thr[q].pc = "exited"
    /\ WorkerReturn(W, "stop_dev")

\* ctrl.stop_dev(&ublk_dev).unwrap()
WorkerStopDev ==
    /\ coord.pc = "stop_dev"
    /\ \E o \in [fs : FsResults, stop : CtrlRings] :
          LET w == stop_dev(W, o)
          IN  WorkerReturn(w, IF w.ret.ok THEN "returned" ELSE "panicked")

\* the function returns Ok(worker_qh), or a panic unwinds it: ctrl is dropped
WorkerDropCtrl ==
    /\ coord.pc \in {"returned", "panicked"}
    /\ ctrl.alive
    /\ \E ring \in CtrlRings :
          WorkerReturn(drop(W, ring), IF coord.pc = "returned" THEN "ended" ELSE "unwound")

WorkerNext ==
    \/ WorkerCtrlNew
    \/ WorkerDevNew
    \/ HandlerNext
    \/ WorkerStartDev
    \/ WorkerJoin
    \/ WorkerStopDev
    \/ WorkerDropCtrl

WorkerSpec == WorkerInit /\ [][WorkerNext]_vars

\* build_json has run for every queue of the device
JsonBuilt ==
    /\ Len(coord.q_tids) = coord.nr_queues
    /\ coord.json = build_json(coord.nr_queues, coord.q_affi, coord.q_tids)

\* every queue thread was spawned and has ended
AllThreadsEnded ==
    /\ Len(thr) = coord.nr_queues
    /\ \A q \in DOMAIN thr : thr[q].pc = "exited"

\* C21: the control commands of one ublk_tgt_worker run are ordered: ADD_DEV
\* comes before everything else, SET_PARAMS and START_DEV are issued only
\* after the JSON record has been built, STOP_DEV only after every queue
\* thread has ended, and the destructor's DEL_DEV only after STOP_DEV.
C21_CommandOrder ==
    LET log == api.log
    IN  /\ \A i \in 1 .. Len(log) : log[i].op = "ADD_DEV" => i = 1
        /\ (ctrl.for_add /\ (Len(log) > 0 \/ Len(thr) > 0)) => log[1].op = "ADD_DEV"
        /\ (NumOps(log, "SET_PARAMS") + NumOps(log, "START_DEV") > 0) => JsonBuilt
        /\ NumOps(log, "STOP_DEV") > 0 => AllThreadsEnded
        /\ \A i \in 1 .. Len(log) :
              log[i].op = "DEL_DEV" => \E j \in 1 .. (i - 1) : log[j].op = "STOP_DEV"


\* the run wrote the JSON file: a flush_json step returned Ok
JsonFlushed(log) == \E i \in 1 .. Len(log) : log[i].op = "flush_json" /\ log[i].ret.ok

\* ublk_tgt_worker is over and its UblkCtrl has been dropped
WorkerCtrlDestroyed == coord.pc \in {"ended", "unwound"} /\ ~ctrl.alive

\* C31: the JSON record does not outlive its device: in a run whose UblkCtrl
\* created the device (for_add) and wrote the JSON file, once the UblkCtrl
\* has been destroyed and its DEL_DEV issued, the file no longer exists.
C31_JsonGoneAfterDel ==
    (/\ WorkerCtrlDestroyed
     /\ ctrl.for_add /\ ctrl.added
     /\ JsonFlushed(api.log)
     /\ NumOps(api.log, "DEL_DEV") > 0)
    => ~kern.json_file

====
